---- MODULE Spec2Model ----
(***************************************************************************)
(* A model of epoxy_streams (src/epoxy_streams/src/streams.rs): Sink,      *)
(* Stream, Subscription and the StreamImpl record behind                   *)
(* Arc<Mutex<StreamImpl<T>>>.                                               *)
(*                                                                         *)
(* Every operation of the library takes the stream's Mutex for its whole   *)
(* body.  subscribe, the destruction of a Subscription or of a Sink and    *)
(* count_subscribers call nothing while they hold it, so each is one step, *)
(* taken when the Mutex can be had.  An emission holds the Mutex while it  *)
(* walks the BTreeMap of closures and the closures run arbitrary code, so  *)
(* it is a frame on the emitting thread's stack: it gets the lock, calls   *)
(* one closure per step, and returns.  The closure of pipe_into calls      *)
(* emit_rc on another stream, which pushes a frame on the same stack.      *)
(*                                                                         *)
(* std::sync::Mutex: lock() blocks while another guard exists; a guard     *)
(* dropped during a panic poisons the Mutex, and lock() on a poisoned      *)
(* Mutex returns Err, which every operation turns into a panic.  A thread  *)
(* that locks a Mutex it already holds never gets the lock (every std      *)
(* implementation blocks forever).                                         *)
(***************************************************************************)
EXTENDS Integers, Sequences, FiniteSets, TLC

\* ------------------------------------------------------------------ bounds
\* Subscriptions created, and Sink::emit calls made, in one run.
MaxSubs == 3
MaxEmits == 2

\* The largest value of highest_id: u16 (u16::MAX).
U16Max == 65535

\* The two sinks/streams (the doc test of pipe_into has two) and the threads.
Streams == {1, 2}
Threads == {1, 2}
NoThread == 0

\* What a listener closure does when it is called.  The library takes any
\* Fn(Arc<T>); these are the closures of the doc tests (rec), of pipe_into
\* (pipe), and closures that call back into the stream that is calling them
\* or fail.
\*   rec    record the value (the doc tests' last_value closure)
\*   pipe   stream.emit_rc(item) on the target stream (pipe_into)
\*   sub    subscribe a recording closure on the emitting stream
\*   count  count_subscribers on the emitting stream
\*   drop   destroy the closure's own Subscription
\*   fail   panic
Kinds == {"rec", "pipe", "sub", "count", "drop", "fail"}

VARIABLES
    highest_id,       \* StreamImpl.highest_id, per stream
    is_alive,         \* StreamImpl.is_alive, per stream
    on_emit,          \* StreamImpl.on_emit, per stream: id -> closure (named by the Subscription made with it)
    holder,           \* the thread holding the stream's MutexGuard, or NoThread
    poisoned,         \* whether the stream's Mutex is poisoned
    sink,             \* whether the stream's Sink object still exists
    subs,             \* every Subscription created so far, in creation order
    closure,          \* per Subscription: the listener closure subscribed with it
    emitted,          \* per stream: the values of the emissions that got its lock, in order
    stack,            \* per thread: the emissions in progress, innermost last
    ret,              \* per thread: how its last call ended
    emits,            \* Sink::emit calls made so far
    overflow_checks,  \* the build: TRUE when integer overflow panics (debug), FALSE when it wraps
    env,              \* the program using the library: its threads, its sinks, the closures it passes
    extra_fields      \* StreamImpl.extra_fields, per stream: NoFields or the boxed payload

vars == <<highest_id, is_alive, on_emit, holder, poisoned, sink, subs, closure,
          emitted, stack, ret, emits, overflow_checks, env, extra_fields>>

\* ----------------------------------------------------------------- helpers
\* The faulty variants below (Max for Min, a map that removes nothing, a lock
\* that excludes nobody, ...) are used to show that the properties checked
\* depend on the definition they stand in for.
Max(S) == CHOOSE x \in S : \A y \in S : x >= y

Min(S) == CHOOSE x \in S : \A y \in S : x <= y

\* The keys of a BTreeMap in iteration order (ascending).
RECURSIVE SortedIds(_)
SortedIds(S) == IF S = {} THEN <<>> ELSE <<Min(S)>> \o SortedIds(S \ {Min(S)})

\* BTreeMap::insert: a new entry, or the replacement of the entry of that key.
MapInsert(m, k, x) == [i \in DOMAIN m \cup {k} |-> IF i = k THEN x ELSE m[i]]

\* A remove that removes nothing.
MapRemoveNothing(m, k) == m

\* BTreeMap::remove: nothing happens when the key is absent.
MapRemove(m, k) == [i \in DOMAIN m \ {k} |-> m[i]]

EmptyMap == [i \in {} |-> 0]

\* A running or waiting Stream::emit_rc(value) on stream s: run says that it
\* has the lock, todo are the closures its loop has still to call.
Frame(s, v) == [s |-> s, v |-> v, run |-> FALSE, todo |-> <<>>]

Top(t) == stack[t][Len(stack[t])]
Pop(t) == SubSeq(stack[t], 1, Len(stack[t]) - 1)
Idle(t) == stack[t] = <<>>

Ok == "ok"
Panicked == "panic"

\* ------------------------------------------------------------------- state
\* Stream::new (through Sink::new): highest_id 0, is_alive true, no closure.
NewStreamImpl == [highest_id |-> 0, is_alive |-> TRUE, on_emit |-> EmptyMap]

\* extra_fields: Option<Box<dyn Any + Send + Sync>>.  None, or a Box whose
\* concrete type is fixed when the stream is made and whose value the
\* function given to mutate_extra_fields may change.
NoFields == [type |-> "none", value |-> "-"]
Fields(type) == [type |-> type, value |-> "a"]

\* The programs explored.  A program has threads, sinks, the kinds of closure
\* it subscribes, the pipe links (from, to) it makes, the sinks it drops, how
\* its streams are made (payload: "none" for Sink::new, else the type given
\* to new_with_fields, which makes a stream without a Sink) and the types it
\* asks read_extra_fields and mutate_extra_fields for.
\*   Shared      two threads on one stream, recording closures and closures
\*               that call count_subscribers on the stream
\*   Piped       one thread, stream 2 piped into sink 1, recording closures;
\*               sink 1 may be dropped while the link is kept
\*   Calling(k)  one thread, one stream, recording closures and closures of
\*               kind k, which call back into the stream or panic
\*               (kind "fail": this program also asks for extension fields)
\*   Looped      one thread, one stream piped into its own sink
\*   Derived     one thread, one stream made by new_with_fields with a
\*               payload of type X, asked for as X and as Y
Shared == [threads |-> {1, 2}, streams |-> {1}, kinds |-> {"rec", "count"},
           links |-> {}, drops |-> {1}, payload |-> "none", asks |-> {}]
Piped == [threads |-> {1}, streams |-> {1, 2}, kinds |-> {"rec", "pipe"},
          links |-> {<<2, 1>>}, drops |-> {1}, payload |-> "none", asks |-> {}]
Calling(k) == [threads |-> {1}, streams |-> {1}, kinds |-> {"rec", k},
               links |-> {}, drops |-> {1}, payload |-> "none",
               asks |-> IF k = "fail" THEN {"X"} ELSE {}]
Looped == [threads |-> {1}, streams |-> {1}, kinds |-> {"rec", "pipe"},
           links |-> {<<1, 1>>}, drops |-> {1}, payload |-> "none", asks |-> {}]
Derived == [threads |-> {1}, streams |-> {1}, kinds |-> {"rec"},
            links |-> {}, drops |-> {}, payload |-> "X", asks |-> {"X", "Y"}]

Envs == {Shared, Piped, Looped, Derived}
            \cup {Calling(k) : k \in {"sub", "drop", "fail"}}

\* StreamImpl.extra_fields as the program's constructor leaves it: Stream::new
\* stores None, new_with_fields stores Some(Box::new(fields)).
NewExtraFields(e) == IF e.payload = "none" THEN NoFields ELSE Fields(e.payload)

\* Sink::new for every sink of the program; nothing subscribed or emitted.
\* A new stream is U16Max subscriptions away from the overflow of highest_id,
\* which no run of MaxSubs subscriptions reaches: the two builds behave alike
\* from here (AgedInit below starts where they differ).
Init ==
    /\ env \in Envs
    /\ extra_fields = [s \in Streams |-> NewExtraFields(env)]
    /\ highest_id = [s \in Streams |-> NewStreamImpl.highest_id]
    /\ is_alive = [s \in Streams |-> NewStreamImpl.is_alive]
    /\ on_emit = [s \in Streams |-> NewStreamImpl.on_emit]
    /\ holder = [s \in Streams |-> NoThread]
    /\ poisoned = [s \in Streams |-> FALSE]
    /\ sink = [s \in Streams |-> env.payload = "none"]
    /\ subs = <<>>
    /\ closure = <<>>
    /\ emitted = [s \in Streams |-> <<>>]
    /\ stack = [t \in Threads |-> <<>>]
    /\ ret = [t \in Threads |-> Ok]
    /\ emits = 0
    /\ overflow_checks = FALSE

\* ------------------------------------------------------------------- Mutex
\* Mutex::lock without exclusion: the guard is handed out at once.
LockNoExclusion(t, s) == TRUE

\* A re-entrant lock: the thread that holds the guard gets it again.
LockReentrant(t, s) == holder[s] \in {NoThread, t}

\* Mutex::lock returns once no other guard of the stream's Mutex exists; a
\* thread that already holds the guard waits for itself.
CanLock(t, s) == holder[s] = NoThread

\* An unwinding that releases the guards without poisoning.
PanicLeavesNoPoison(t, held) ==
    /\ poisoned' = poisoned
    /\ holder' = [s \in Streams |-> IF holder[s] = t THEN NoThread ELSE holder[s]]
    /\ stack' = [stack EXCEPT ![t] = <<>>]
    /\ ret' = [ret EXCEPT ![t] = Panicked]

\* An unwinding that poisons only the Mutex of the innermost emission.
PanicPoisonsInnermost(t, held) ==
    /\ poisoned' = [s \in Streams |->
                       \/ poisoned[s]
                       \/ s \in held
                       \/ (~Idle(t) /\ Top(t).run /\ Top(t).s = s)]
    /\ holder' = [s \in Streams |-> IF holder[s] = t THEN NoThread ELSE holder[s]]
    /\ stack' = [stack EXCEPT ![t] = <<>>]
    /\ ret' = [ret EXCEPT ![t] = Panicked]

\* panic!: the thread's calls unwind.  Every MutexGuard the thread holds is
\* dropped while panicking, which poisons its Mutex; `held` are the guards of
\* the body that panics.
Panic(t, held) ==
    /\ poisoned' = [s \in Streams |-> poisoned[s] \/ holder[s] = t \/ s \in held]
    /\ holder' = [s \in Streams |-> IF holder[s] = t THEN NoThread ELSE holder[s]]
    /\ stack' = [stack EXCEPT ![t] = <<>>]
    /\ ret' = [ret EXCEPT ![t] = Panicked]

\* A call of the thread returns: the outermost call sets the thread's result.
Returns(t) == ret' = IF Len(stack'[t]) = 0 THEN [ret EXCEPT ![t] = Ok] ELSE ret

\* --------------------------------------------------------------- subscribe
\* self.highest_id += 1 on a u16 below its maximum.
NextId(n) == n + 1

\* StreamImpl::subscribe: the id is highest_id, highest_id is incremented
\* (wrapping at u16::MAX in a build without overflow checks), the listener is
\* inserted under the id.
StreamImplSubscribe(impl, listener) ==
    [id |-> impl.highest_id,
     highest_id |-> IF impl.highest_id = U16Max THEN 0 ELSE NextId(impl.highest_id),
     on_emit |-> MapInsert(impl.on_emit, impl.highest_id, listener)]

\* The Subscription {id, stream} that Stream::subscribe returns; live until
\* it is dropped.
Subscription(s, id) == [stream |-> s, id |-> id, live |-> TRUE]

\* The listener boxed by StreamImpl::subscribe: what it does (kind, and the
\* target of a pipe_into closure), and as history the number of emissions
\* its stream had made when it was subscribed and the values it has been
\* called with.
Closure(s, kind, to) == [kind |-> kind, to |-> to, since |-> Len(emitted[s]), log |-> <<>>]

\* A closure whose Box is dropped: BTreeMap::remove and BTreeMap::insert hand
\* the old Box back and it is dropped at once.
Gone == [kind |-> "gone", to |-> 0, since |-> 0, log |-> <<>>]

\* The closures in the maps.
Boxed(maps) == UNION {{maps[s][i] : i \in DOMAIN maps[s]} : s \in Streams}

\* The closures after the maps have changed and one has been called with v.
Closures(cs, maps, called, v) ==
    [h \in DOMAIN cs |->
        LET c == IF h \in called THEN [cs[h] EXCEPT !.log = Append(@, v)] ELSE cs[h]
        IN IF h \in Boxed(maps) THEN c ELSE [Gone EXCEPT !.log = IF h \in called THEN c.log ELSE <<>>]]

\* Whether self.highest_id += 1 panics: at u16::MAX with overflow checks.
Overflows(s) == highest_id[s] = U16Max /\ overflow_checks

\* Stream::subscribe(listener) by a thread that is in no other call.  On a
\* poisoned Mutex it panics; when the increment overflows it panics holding
\* the guard, before the insert.
SubscribeAs(t, s, kind, to) ==
    /\ Idle(t)
    /\ Len(subs) < MaxSubs
    /\ CanLock(t, s)
    /\ IF poisoned[s] \/ Overflows(s)
       THEN /\ Panic(t, IF poisoned[s] THEN {} ELSE {s})
            /\ UNCHANGED <<highest_id, on_emit, subs, closure>>
       ELSE LET r == StreamImplSubscribe([highest_id |-> highest_id[s],
                                          on_emit |-> on_emit[s]], Len(subs) + 1)
            IN /\ highest_id' = [highest_id EXCEPT ![s] = r.highest_id]
               /\ on_emit' = [on_emit EXCEPT ![s] = r.on_emit]
               /\ subs' = Append(subs, Subscription(s, r.id))
               /\ closure' = Closures(Append(closure, Closure(s, kind, to)),
                                      on_emit', {}, 0)
               /\ ret' = [ret EXCEPT ![t] = Ok]
               /\ UNCHANGED <<holder, poisoned, stack>>
    /\ UNCHANGED <<is_alive, sink, emitted, emits, overflow_checks, env, extra_fields>>

Subscribe(t, s, kind) ==
    /\ kind \in env.kinds \ {"pipe"}
    /\ SubscribeAs(t, s, kind, 0)

\* Stream::pipe_into(&sink): clones the Sink's stream handle into a closure
\* and subscribes it; the Sink must exist to be borrowed.
PipeInto(t, s, to) ==
    /\ <<s, to>> \in env.links
    /\ sink[to]
    /\ SubscribeAs(t, s, "pipe", to)

\* ------------------------------------------------------------- unsubscribe
\* An unsubscribe_by_id that clears the registry.
UnsubscribeAll(map, id) == EmptyMap

\* An unsubscribe_by_id that removes the entry of the lowest id.
UnsubscribeLowest(map, id) == MapRemove(map, Min(DOMAIN map \cup {id}))

\* Stream::unsubscribe_by_id: on_emit.remove(&subscription_id).
UnsubscribeById(map, id) == MapRemove(map, id)

\* Drop for Subscription: self.stream.unsubscribe_by_id(self.id).  On a
\* poisoned Mutex it panics and the Subscription is gone all the same.
Drop(t, h) ==
    /\ Idle(t)
    /\ h \in DOMAIN subs
    /\ subs[h].live
    /\ CanLock(t, subs[h].stream)
    /\ subs' = [subs EXCEPT ![h].live = FALSE]
    /\ IF poisoned[subs[h].stream]
       THEN /\ Panic(t, {})
            /\ UNCHANGED <<on_emit, closure>>
       ELSE /\ on_emit' = [on_emit EXCEPT ![subs[h].stream] = UnsubscribeById(@, subs[h].id)]
            /\ closure' = Closures(closure, on_emit', {}, 0)
            /\ ret' = [ret EXCEPT ![t] = Ok]
            /\ UNCHANGED <<holder, poisoned, stack>>
    /\ UNCHANGED <<highest_id, is_alive, sink, emitted, emits, overflow_checks, env, extra_fields>>

\* An unsubscribe that removes the Subscription's id from the registry of the
\* stream it is called on.
UnsubscribeOnHandle(t, via, h) ==
    /\ via \in env.streams
    /\ Idle(t)
    /\ h \in DOMAIN subs
    /\ subs[h].live
    /\ CanLock(t, via)
    /\ subs' = [subs EXCEPT ![h].live = FALSE]
    /\ IF poisoned[via]
       THEN /\ Panic(t, {})
            /\ UNCHANGED <<on_emit, closure>>
       ELSE /\ on_emit' = [on_emit EXCEPT ![via] = UnsubscribeById(@, subs[h].id)]
            /\ closure' = Closures(closure, on_emit', {}, 0)
            /\ ret' = [ret EXCEPT ![t] = Ok]
            /\ UNCHANGED <<holder, poisoned, stack>>
    /\ UNCHANGED <<highest_id, is_alive, sink, emitted, emits, overflow_checks, env, extra_fields>>

\* Stream::unsubscribe(subscription) on a handle of stream `via`: the body is
\* empty, the moved Subscription is dropped at its end.
Unsubscribe(t, via, h) ==
    /\ via \in env.streams
    /\ Drop(t, h)

\* ------------------------------------------------- count_subscribers, Sink
\* Stream::count_subscribers: on_emit.len().
CountSubscribers(s) == Cardinality(DOMAIN on_emit[s])

Count(t, s) ==
    /\ Idle(t)
    /\ CanLock(t, s)
    /\ IF poisoned[s]
       THEN Panic(t, {})
       ELSE /\ CountSubscribers(s) \in Nat
            /\ ret' = [ret EXCEPT ![t] = Ok]
            /\ UNCHANGED <<holder, poisoned, stack>>
    /\ UNCHANGED <<highest_id, is_alive, on_emit, sink, subs, closure, emitted, emits,
                   overflow_checks, env, extra_fields>>

\* A Drop for Sink that also closes the stream: the registry is cleared.
DropSinkClosesStream(t, s) ==
    /\ Idle(t)
    /\ sink[s]
    /\ \A u \in Threads : ~Idle(u) => stack[u][1].s # s
    /\ CanLock(t, s)
    /\ sink' = [sink EXCEPT ![s] = FALSE]
    /\ IF poisoned[s]
       THEN /\ Panic(t, {})
            /\ UNCHANGED <<is_alive, on_emit, closure>>
       ELSE /\ is_alive' = [is_alive EXCEPT ![s] = FALSE]
            /\ on_emit' = [on_emit EXCEPT ![s] = EmptyMap]
            /\ closure' = Closures(closure, on_emit', {}, 0)
            /\ ret' = [ret EXCEPT ![t] = Ok]
            /\ UNCHANGED <<holder, poisoned, stack>>
    /\ UNCHANGED <<highest_id, subs, emitted, emits, overflow_checks, env, extra_fields>>

\* A Drop for Sink that leaves is_alive as it is.
DropSinkKeepsAlive(t, s) ==
    /\ Idle(t)
    /\ sink[s]
    /\ \A u \in Threads : ~Idle(u) => stack[u][1].s # s
    /\ CanLock(t, s)
    /\ sink' = [sink EXCEPT ![s] = FALSE]
    /\ IF poisoned[s]
       THEN Panic(t, {})
       ELSE /\ ret' = [ret EXCEPT ![t] = Ok]
            /\ UNCHANGED <<holder, poisoned, stack>>
    /\ UNCHANGED <<highest_id, is_alive, on_emit, subs, closure, emitted, emits,
                   overflow_checks, env, extra_fields>>

\* Drop for Sink: is_alive = false under the lock.  A Sink that is borrowed
\* by a running Sink::emit cannot be dropped.
DropSink(t, s) ==
    /\ Idle(t)
    /\ sink[s]
    /\ \A u \in Threads : ~Idle(u) => stack[u][1].s # s
    /\ CanLock(t, s)
    /\ sink' = [sink EXCEPT ![s] = FALSE]
    /\ IF poisoned[s]
       THEN /\ Panic(t, {})
            /\ UNCHANGED is_alive
       ELSE /\ is_alive' = [is_alive EXCEPT ![s] = FALSE]
            /\ ret' = [ret EXCEPT ![t] = Ok]
            /\ UNCHANGED <<holder, poisoned, stack>>
    /\ UNCHANGED <<highest_id, on_emit, subs, closure, emitted, emits, overflow_checks, env, extra_fields>>

\* ---------------------------------------------------------- extension fields
\* A downcast that never fails (a payload read as whatever type is asked).
DowncastUnchecked(fields, type) == TRUE

\* `if let Some(box) = &extra_fields` and box.downcast_ref::<ExtraFieldsType>()
\* (downcast_mut): Some only for a payload of exactly the type asked for.
Downcast(fields, type) == fields # NoFields /\ fields.type = type

\* The function given to mutate_extra_fields, which gets &mut to the payload:
\* one that writes the other value.
Mutated(fields) == [fields EXCEPT !.value = IF @ = "a" THEN "b" ELSE "a"]

\* Stream::read_extra_fields::<type>(cb): under the lock, cb(&fields) when the
\* downcast gives Some, and its result is returned (cb: the payload's value);
\* else panic!("Invalid type for derived stream field.") with the guard
\* alive.  On a poisoned Mutex it panics.
ReadExtraFields(t, s, type) ==
    /\ Idle(t)
    /\ type \in env.asks
    /\ CanLock(t, s)
    /\ IF poisoned[s]
       THEN Panic(t, {})
       ELSE IF Downcast(extra_fields[s], type)
            THEN /\ ret' = [ret EXCEPT ![t] = extra_fields[s].value]
                 /\ UNCHANGED <<holder, poisoned, stack>>
            ELSE Panic(t, {s})
    /\ UNCHANGED <<highest_id, is_alive, on_emit, sink, subs, closure, emitted, emits,
                   overflow_checks, env, extra_fields>>

\* Stream::mutate_extra_fields::<type>(cb): the same with cb(&mut fields).
MutateExtraFields(t, s, type) ==
    /\ Idle(t)
    /\ type \in env.asks
    /\ CanLock(t, s)
    /\ IF poisoned[s]
       THEN Panic(t, {}) /\ UNCHANGED extra_fields
       ELSE IF Downcast(extra_fields[s], type)
            THEN /\ extra_fields' = [extra_fields EXCEPT ![s] = Mutated(@)]
                 /\ ret' = [ret EXCEPT ![t] = Ok]
                 /\ UNCHANGED <<holder, poisoned, stack>>
            ELSE Panic(t, {s}) /\ UNCHANGED extra_fields
    /\ UNCHANGED <<highest_id, is_alive, on_emit, sink, subs, closure, emitted, emits,
                   overflow_checks, env>>

\* ---------------------------------------------------------------- emission
\* Sink::emit(value): Sink::emit_rc(Arc::new(value)), which is
\* self.stream.emit_rc.  The library never looks into a value (T is a type
\* parameter), so the k-th value emitted is named k.
Emit(t, s) ==
    /\ Idle(t)
    /\ sink[s]
    /\ emits < MaxEmits
    /\ emits' = emits + 1
    /\ stack' = [stack EXCEPT ![t] = <<Frame(s, emits + 1)>>]
    /\ UNCHANGED <<highest_id, is_alive, on_emit, holder, poisoned, sink, subs,
                   closure, emitted, ret, overflow_checks, env, extra_fields>>

\* A loop over the registry that stops one closure early.
EmitOrderStopsEarly(map) ==
    [i \in 1..(Cardinality(DOMAIN map) - 1) |-> map[SortedIds(DOMAIN map)[i]]]

\* The closures StreamImpl::emit_rc calls: `for (_id, call) in &self.on_emit`
\* walks the BTreeMap in ascending key order.
EmitOrder(map) == [i \in 1..Cardinality(DOMAIN map) |-> map[SortedIds(DOMAIN map)[i]]]

\* Stream::emit_rc gets the lock (or panics on a poisoned Mutex) and enters
\* StreamImpl::emit_rc; the guard lives until that returns.
AcquireEmit(t) ==
    /\ ~Idle(t)
    /\ ~Top(t).run
    /\ CanLock(t, Top(t).s)
    /\ LET s == Top(t).s
       IN IF poisoned[s]
          THEN /\ Panic(t, {})
               /\ UNCHANGED emitted
          ELSE /\ holder' = [holder EXCEPT ![s] = t]
               /\ emitted' = [emitted EXCEPT ![s] = Append(@, Top(t).v)]
               /\ stack' = [stack EXCEPT ![t][Len(stack[t])] =
                               [Top(t) EXCEPT !.run = TRUE, !.todo = EmitOrder(on_emit[s])]]
               /\ UNCHANGED <<poisoned, ret>>
    /\ UNCHANGED <<highest_id, is_alive, on_emit, sink, subs, closure, emits,
                   overflow_checks, env, extra_fields>>

\* A pipe closure that forwards a default value in place of its item.
PipeClosureLosesItem(c, item) == Frame(c.to, 0)

\* The closure that pipe_into subscribes, move |item| stream.emit_rc(item):
\* the call of emit_rc on its captured stream, with the item it was given.
PipeClosure(c, item) == Frame(c.to, item)

\* The kinds of closure that lock the stream that is calling them.
Reentrant == {"sub", "count", "drop"}

\* One turn of the loop of StreamImpl::emit_rc: call(value.clone()) for the
\* next closure.  The closure records; or panics; or calls emit_rc on its
\* target, a new emission on this thread; or makes its call on the emitting
\* stream, which needs that stream's lock.
Invoke(t) ==
    /\ ~Idle(t)
    /\ Top(t).run
    /\ Top(t).todo # <<>>
    /\ LET f == Top(t)
           h == Head(f.todo)
           kind == closure[h].kind
           rest == Append(Pop(t), [f EXCEPT !.todo = Tail(f.todo)])
           r == StreamImplSubscribe([highest_id |-> highest_id[f.s],
                                     on_emit |-> on_emit[f.s]], Len(subs) + 1)
       IN /\ kind \in Reentrant => CanLock(t, f.s)
          /\ IF kind = "fail"
             THEN /\ Panic(t, {})
                  /\ closure' = Closures(closure, on_emit, {h}, f.v)
                  /\ UNCHANGED <<highest_id, on_emit, subs>>
             ELSE /\ stack' = [stack EXCEPT ![t] =
                                  IF kind = "pipe"
                                  THEN Append(rest, PipeClosure(closure[h], f.v))
                                  ELSE rest]
                  /\ highest_id' = IF kind = "sub"
                                   THEN [highest_id EXCEPT ![f.s] = r.highest_id]
                                   ELSE highest_id
                  /\ on_emit' = [on_emit EXCEPT ![f.s] =
                                    CASE kind = "sub" -> r.on_emit
                                      [] kind = "drop" -> UnsubscribeById(@, subs[h].id)
                                      [] OTHER -> @]
                  /\ subs' = CASE kind = "sub" -> Append(subs, Subscription(f.s, r.id))
                               [] kind = "drop" -> [subs EXCEPT ![h].live = FALSE]
                               [] OTHER -> subs
                  /\ closure' = Closures(IF kind = "sub"
                                         THEN Append(closure, Closure(f.s, "rec", 0))
                                         ELSE closure,
                                         on_emit', {h}, f.v)
                  /\ UNCHANGED <<holder, poisoned, ret>>
    /\ UNCHANGED <<is_alive, sink, emitted, emits, overflow_checks, env, extra_fields>>

\* An emit_rc that returns without giving up its guard (a leaked MutexGuard).
ReturnKeepsGuard(t) ==
    /\ ~Idle(t)
    /\ Top(t).run
    /\ Top(t).todo = <<>>
    /\ stack' = [stack EXCEPT ![t] = Pop(t)]
    /\ Returns(t)
    /\ UNCHANGED <<highest_id, is_alive, on_emit, holder, poisoned, sink, subs, closure,
                   emitted, emits, overflow_checks, env, extra_fields>>

\* StreamImpl::emit_rc has called every closure: Stream::emit_rc returns and
\* its guard is dropped.
Return(t) ==
    /\ ~Idle(t)
    /\ Top(t).run
    /\ Top(t).todo = <<>>
    /\ holder' = [holder EXCEPT ![Top(t).s] = NoThread]
    /\ stack' = [stack EXCEPT ![t] = Pop(t)]
    /\ Returns(t)
    /\ UNCHANGED <<highest_id, is_alive, on_emit, poisoned, sink, subs, closure,
                   emitted, emits, overflow_checks, env, extra_fields>>

\* ------------------------------------------------------------ specification
\* What thread t may do next.
Step(t) ==
    \/ \E s \in env.streams : Emit(t, s)
    \/ \E s \in env.streams, k \in env.kinds : Subscribe(t, s, k)
    \/ \E s \in env.streams, to \in env.streams : PipeInto(t, s, to)
    \/ \E h \in 1..MaxSubs : Drop(t, h)
    \/ \E via \in env.streams, h \in 1..MaxSubs : Unsubscribe(t, via, h)
    \/ \E s \in env.streams : Count(t, s)
    \/ \E s \in env.drops : DropSink(t, s)
    \/ \E s \in env.streams, x \in env.asks : ReadExtraFields(t, s, x)
    \/ \E s \in env.streams, x \in env.asks : MutateExtraFields(t, s, x)
    \/ AcquireEmit(t)
    \/ Invoke(t)
    \/ Return(t)

Next == \E t \in env.threads : Step(t)

Spec == Init /\ [][Next]_vars

\* Spec explores new streams, far below the ceiling of 65,536 subscriptions
\* per stream that the u16 id imposes; SpecAged explores a stream at it.
\*
\* A stream that has lived long: one Subscription, made first (id 0) and still
\* held, and 65,534 more that were made and dropped since, which leaves
\* highest_id at u16::MAX.  Nothing has been emitted.  Either build.
AgedInit ==
    /\ env \in Envs
    /\ extra_fields = [s \in Streams |-> NewExtraFields(env)]
    /\ highest_id = [s \in Streams |-> IF s = 1 THEN U16Max ELSE NewStreamImpl.highest_id]
    /\ is_alive = [s \in Streams |-> NewStreamImpl.is_alive]
    /\ on_emit = [s \in Streams |-> IF s = 1 THEN MapInsert(EmptyMap, 0, 1)
                                    ELSE NewStreamImpl.on_emit]
    /\ holder = [s \in Streams |-> NoThread]
    /\ poisoned = [s \in Streams |-> FALSE]
    /\ sink = [s \in Streams |-> env.payload = "none"]
    /\ subs = <<[stream |-> 1, id |-> 0, live |-> TRUE]>>
    /\ closure = <<[kind |-> "rec", to |-> 0, since |-> 0, log |-> <<>>]>>
    /\ emitted = [s \in Streams |-> <<>>]
    /\ stack = [t \in Threads |-> <<>>]
    /\ ret = [t \in Threads |-> Ok]
    /\ emits = 0
    /\ overflow_checks \in BOOLEAN

SpecAged == AgedInit /\ [][Next]_vars

\* ------------------------------------------------------- threads in progress
\* The programs explored for progress: Concurrent, two threads that both
\* emit, subscribe, pipe and drop Subscriptions on two streams, stream 2
\* being piped into sink 1, with recording closures; and Shared and Derived,
\* which make the other calls of the library.
Concurrent == [threads |-> {1, 2}, streams |-> {1, 2}, kinds |-> {"rec", "pipe"},
               links |-> {<<2, 1>>}, drops |-> {}, payload |-> "none", asks |-> {}]

\* Sink::new (or new_with_fields) for every stream of one of the programs E;
\* nothing subscribed or emitted.
NewStreams(E) ==
    /\ env \in E
    /\ extra_fields = [s \in Streams |-> NewExtraFields(env)]
    /\ highest_id = [s \in Streams |-> NewStreamImpl.highest_id]
    /\ is_alive = [s \in Streams |-> NewStreamImpl.is_alive]
    /\ on_emit = [s \in Streams |-> NewStreamImpl.on_emit]
    /\ holder = [s \in Streams |-> NoThread]
    /\ poisoned = [s \in Streams |-> FALSE]
    /\ sink = [s \in Streams |-> env.payload = "none"]
    /\ subs = <<>>
    /\ closure = <<>>
    /\ emitted = [s \in Streams |-> <<>>]
    /\ stack = [t \in Threads |-> <<>>]
    /\ ret = [t \in Threads |-> Ok]
    /\ emits = 0
    /\ overflow_checks = FALSE

\* The Concurrent program after the set-up of the doc test of pipe_into:
\* stream 2 is piped into sink 1 and a recording closure is subscribed on
\* stream 1, both Subscriptions being held; nothing has been emitted.  The
\* threads start from here.
Wired ==
    /\ env = Concurrent
    /\ extra_fields = [s \in Streams |-> NewExtraFields(env)]
    /\ highest_id = [s \in Streams |-> NextId(NewStreamImpl.highest_id)]
    /\ is_alive = [s \in Streams |-> NewStreamImpl.is_alive]
    /\ on_emit = [s \in Streams |-> MapInsert(NewStreamImpl.on_emit, 0, 3 - s)]
    /\ holder = [s \in Streams |-> NoThread]
    /\ poisoned = [s \in Streams |-> FALSE]
    /\ sink = [s \in Streams |-> TRUE]
    /\ subs = <<Subscription(2, 0), Subscription(1, 0)>>
    /\ closure = <<[kind |-> "pipe", to |-> 1, since |-> 0, log |-> <<>>],
                   [kind |-> "rec", to |-> 0, since |-> 0, log |-> <<>>]>>
    /\ emitted = [s \in Streams |-> <<>>]
    /\ stack = [t \in Threads |-> <<>>]
    /\ ret = [t \in Threads |-> Ok]
    /\ emits = 0
    /\ overflow_checks = FALSE

FairInit == Wired \/ NewStreams({Shared, Derived})

\* A thread that is inside emit_rc goes on: when it can take its next step
\* (get the lock it waits for once that is free, call the next closure,
\* return) it takes it.  Nothing obliges a thread to start a call, and
\* Mutex::lock promises no order among the threads that wait.
Progress(t) == AcquireEmit(t) \/ Invoke(t) \/ Return(t)

SpecFair == FairInit /\ [][Next]_vars /\ \A t \in Threads : WF_vars(Progress(t))

\* ------------------------------------------------------------ linked streams
\* The programs explored for pipe links that close a cycle or lead to a
\* closure that fails, each with one thread:
\*   Cycle    stream 1 piped into sink 2 and stream 2 into sink 1
\*   Chain    stream 2 piped into sink 1, and closures that panic
\*   Looped   a stream piped into its own sink (above)
\* and Derived, which makes the extension calls.
Cycle == [threads |-> {1}, streams |-> {1, 2}, kinds |-> {"pipe"},
          links |-> {<<1, 2>>, <<2, 1>>}, drops |-> {}, payload |-> "none", asks |-> {}]
Chain == [threads |-> {1}, streams |-> {1, 2}, kinds |-> {"fail"},
          links |-> {<<2, 1>>}, drops |-> {}, payload |-> "none", asks |-> {}]

LinkedEnvs == {Cycle, Chain, Looped, Derived}

LinkedInit == NewStreams(LinkedEnvs)

SpecLinked == LinkedInit /\ [][Next]_vars

\* ------------------------------------------------------- terms of the claims
\* The Subscriptions of stream s that have not been destroyed.
LiveOn(s) == {h \in DOMAIN subs : subs[h].live /\ subs[h].stream = s}

\* No emission of stream s is in progress and none has failed.
Quiet(s) == holder[s] = NoThread /\ ~poisoned[s]

Range(q) == {q[i] : i \in DOMAIN q}

Last(q) == q[Len(q)]

\* The number of times x occurs in q.
Occurrences(q, x) == Cardinality({i \in DOMAIN q : q[i] = x})

\* q never steps back (a value forwarded by two pipe links arrives twice).
Ascending(q) == \A i, j \in DOMAIN q : i < j => q[i] <= q[j]

\* The emissions in progress: (thread, depth) of every frame that has the lock.
Running == {<<t, i>> \in Threads \X (1..(MaxEmits + 1)) :
               i \in DOMAIN stack[t] /\ stack[t][i].run}

\* The emission that thread t has on top of its stack returns in this step
\* (a panic unwinds the whole stack and poisons the streams it had locked).
Returned(t) ==
    /\ ~Idle(t)
    /\ Top(t).run
    /\ stack'[t] = Pop(t)
    /\ ~poisoned'[Top(t).s]

\* The calls that the closure of Subscription h is due, as many as the
\* emissions of its stream s since it was made.
Due(s, h) == Len(emitted[s]) - closure[h].since

\* ----------------------------------------------------------------------- C1
\* C1: when no emission of a stream is in progress, every Subscription of it
\* that was made before the stream's first emission and is not destroyed has
\* had its closure called with exactly the values emitted on the stream, once
\* each, in the order of the emissions; and where the program's emit calls
\* follow one another (one thread) that is the order of the calls.
C1_EachValueOnceInOrder ==
    \A s \in Streams : \A h \in LiveOn(s) :
        (Quiet(s) /\ closure[h].since = 0) =>
            /\ closure[h].log = emitted[s]
            /\ Cardinality(env.threads) = 1 => Ascending(closure[h].log)

\* Two Subscriptions made before the first of two emissions, both called twice.
C1_Witness ==
    \E s \in Streams : \E h1, h2 \in LiveOn(s) :
        /\ h1 # h2
        /\ Quiet(s)
        /\ closure[h1].since = 0 /\ closure[h2].since = 0
        /\ Len(emitted[s]) = 2
        /\ closure[h1].log = emitted[s] /\ closure[h2].log = emitted[s]

\* ----------------------------------------------------------------------- C2
\* C2: on a stream whose Mutex is not poisoned (count_subscribers returns),
\* count_subscribers() is the number of Subscriptions of the stream that have
\* not been destroyed.
C2_CountIsLiveSubscriptions ==
    \A s \in Streams : ~poisoned[s] => CountSubscribers(s) = Cardinality(LiveOn(s))

\* Three Subscriptions of one stream are alive and its registry holds two
\* closures: the id counter wrapped and the third insert replaced the first.
C2_Witness ==
    \E s \in Streams :
        /\ ~poisoned[s]
        /\ Cardinality(LiveOn(s)) = 3
        /\ CountSubscribers(s) = 2

\* ----------------------------------------------------------------------- C3
\* Subscription h is destroyed in this step and the destruction returns.
Destroyed(h) ==
    /\ h \in DOMAIN subs
    /\ subs[h].live
    /\ ~subs'[h].live
    /\ ~poisoned[subs[h].stream]

\* The closures other than h that map m holds, under their ids.
Without(m, h) == [i \in {j \in DOMAIN m : m[j] # h} |-> m[i]]

\* C3: the destruction of a Subscription takes its own closure out of its
\* stream's registry and nothing else: every other entry of every registry
\* stays under its id, and no closure is called by it.  Every Subscription
\* that is not destroyed stays in the registry, so that, when no emission is
\* in progress, it has been called once for every emission since it was made.
C3_DropRemovesOnlyItsOwn ==
    /\ [][\A h \in DOMAIN subs : Destroyed(h) =>
            /\ h \in Boxed(on_emit)
            /\ on_emit' = [s \in Streams |-> Without(on_emit[s], h)]
            /\ \A g \in DOMAIN closure : g # h => closure'[g] = closure[g]]_vars
    /\ [](\A s \in Streams : \A h \in LiveOn(s) : Quiet(s) =>
            /\ subs[h].id \in DOMAIN on_emit[s]
            /\ on_emit[s][subs[h].id] = h
            /\ Len(closure[h].log) = Due(s, h))

\* One of two Subscriptions was destroyed after the first emission, and the
\* other has been called for the second emission as well.
C3_Witness ==
    \E s \in Streams : \E h, g \in DOMAIN subs :
        /\ subs[h].stream = s /\ ~subs[h].live
        /\ g \in LiveOn(s)
        /\ h \notin Boxed(on_emit)
        /\ Quiet(s)
        /\ Len(emitted[s]) = 2
        /\ closure[g].log = emitted[s]
        /\ CountSubscribers(s) = 1

\* ----------------------------------------------------------------------- C4
\* The closures of stream s in the order of their ids.
ById(s) == EmitOrder(on_emit[s])

\* The closure of Subscription h has been called for the latest emission, of
\* value v, of its stream s.
CalledWith(s, h, v) ==
    /\ Len(closure[h].log) = Due(s, h)
    /\ closure[h].log # <<>>
    /\ Last(closure[h].log) = v

\* C4: in every emission in progress, of value v on stream s, the closures of
\* the registry are called in ascending order of their ids, which is the order
\* in which their Subscriptions were made: those before the next one to call
\* have been called for this emission, with v and once, and the others have
\* not yet.  The emit call returns only when all of them have been called.
C4_EachOnceInIdOrder ==
    /\ [](\A r \in Running :
            LET f == stack[r[1]][r[2]]
                n == CountSubscribers(f.s)
                done == n - Len(f.todo)
            IN /\ f.todo = SubSeq(ById(f.s), done + 1, n)
               /\ \A i, j \in 1..n : i < j => ById(f.s)[i] < ById(f.s)[j]
               /\ \A i \in 1..n :
                    IF i <= done THEN CalledWith(f.s, ById(f.s)[i], f.v)
                    ELSE Len(closure[ById(f.s)[i]].log) = Due(f.s, ById(f.s)[i]) - 1)
    /\ [][\A t \in Threads : Returned(t) =>
            \A i \in DOMAIN on_emit[Top(t).s] :
                CalledWith(Top(t).s, on_emit[Top(t).s][i], Top(t).v)]_vars

\* An emission with three closures to call has called the first two.
C4_Witness ==
    \E r \in Running :
        LET f == stack[r[1]][r[2]]
        IN /\ CountSubscribers(f.s) = 3
           /\ Len(f.todo) = 1
           /\ CalledWith(f.s, ById(f.s)[1], f.v)
           /\ CalledWith(f.s, ById(f.s)[2], f.v)
           /\ ~CalledWith(f.s, ById(f.s)[3], f.v)

\* ----------------------------------------------------------------------- C5
\* The pipe links from stream b into stream a that are alive.
Links(b, a) == {h \in LiveOn(b) : closure[h].kind = "pipe" /\ closure[h].to = a}

\* The entries of q that are values emitted on stream b.
From(b, q) == SelectSeq(q, LAMBDA v : v \in Range(emitted[b]))

\* C5: when an emit call on the Sink of stream b returns, every Subscription
\* of a stream a that b is piped into has been called with the emitted value
\* once for each live link from b into a (once, with one link); and the values
\* of b that a Subscription of a has received are in the order of their
\* emission on b.
C5_PipeForwardsEachValue ==
    /\ [][\A t \in Threads : \A b, a \in Streams :
            (Returned(t) /\ Len(stack[t]) = 1 /\ Top(t).s = b /\ a # b) =>
                \A h \in LiveOn(a) :
                    Occurrences(closure[h].log, Top(t).v) = Cardinality(Links(b, a))]_vars
    /\ [](\A b, a \in Streams : \A h \in LiveOn(a) :
            a # b => Ascending(From(b, closure[h].log)))

\* Two values were emitted on stream 2, piped into stream 1 by one link, and a
\* Subscription of stream 1 has received exactly the two, in order.
C5_Witness ==
    /\ Cardinality(Links(2, 1)) = 1
    /\ Quiet(1) /\ Quiet(2)
    /\ emitted[2] = <<1, 2>>
    /\ \E h \in LiveOn(1) : closure[h].log = <<1, 2>>

\* ----------------------------------------------------------------------- C6
\* C6: the destruction of the Subscription that pipe_into returned leaves the
\* registry of the target stream and the other entries of the source stream
\* as they were; and a value whose emission on stream b returns while no link
\* from b into a is alive has not been emitted on a, nor received by a closure
\* registered on a.
C6_DroppedPipeForwardsNothing ==
    /\ [][\A h \in DOMAIN subs :
            (Destroyed(h) /\ closure[h].kind = "pipe") =>
                /\ closure[h].to # subs[h].stream =>
                       on_emit'[closure[h].to] = on_emit[closure[h].to]
                /\ on_emit'[subs[h].stream] = Without(on_emit[subs[h].stream], h)
                /\ \A g \in DOMAIN closure : g # h => closure'[g] = closure[g]]_vars
    /\ [][\A t \in Threads : \A b, a \in Streams :
            (Returned(t) /\ Len(stack[t]) = 1 /\ Top(t).s = b /\ a # b
                /\ Links(b, a) = {}) =>
                /\ Top(t).v \notin Range(emitted[a])
                /\ \A h \in LiveOn(a) : Top(t).v \notin Range(closure[h].log)]_vars

\* The first value emitted on stream 2 was forwarded to stream 1; the link has
\* been destroyed since, and the second emission on stream 2 is about to
\* return with a Subscription of stream 1 having received the first value only.
C6_Witness ==
    /\ Links(2, 1) = {}
    /\ \E h \in DOMAIN subs : subs[h].stream = 2 /\ ~subs[h].live
    /\ emitted[2] = <<1, 2>>
    /\ emitted[1] = <<1>>
    /\ \E h \in LiveOn(1) : closure[h].log = <<1>>
    /\ \E t \in Threads : Len(stack[t]) = 1 /\ Top(t).s = 2 /\ Top(t).run
                          /\ Top(t).todo = <<>>

\* ----------------------------------------------------------------------- C7
\* The emission on top of thread t's stack gets the lock in this step.
Acquired(t) ==
    /\ ~Idle(t)
    /\ ~Top(t).run
    /\ Len(stack'[t]) = Len(stack[t])
    /\ stack'[t][Len(stack[t])].run

\* The closures that the registry of stream s holds.
Registered(s) == {on_emit[s][i] : i \in DOMAIN on_emit[s]}

\* C7: the closures an emission is to call are, each once, the closures in the
\* registry when it gets the lock; from then until it returns the registry,
\* the id counter and the set of live Subscriptions of the stream stay as they
\* are, whatever other threads do; a closure is called only as the next one of
\* a running emission; and the emission returns when none is left to call.
C7_EmissionIsIndivisible ==
    [][/\ \A t \in Threads : Acquired(t) =>
            LET g == stack'[t][Len(stack[t])]
            IN /\ Range(g.todo) = Registered(g.s)
               /\ Len(g.todo) = CountSubscribers(g.s)
       /\ \A s \in Streams : holder[s] # NoThread =>
            /\ on_emit'[s] = on_emit[s]
            /\ highest_id'[s] = highest_id[s]
            /\ LiveOn(s)' = LiveOn(s)
       /\ \A h \in DOMAIN closure : Len(closure'[h].log) > Len(closure[h].log) =>
            \E t \in Threads : /\ ~Idle(t) /\ Top(t).run /\ Top(t).todo # <<>>
                               /\ Head(Top(t).todo) = h
                               /\ holder[Top(t).s] = t
       /\ \A t \in Threads : Returned(t) => Top(t).todo = <<>>]_vars

\* One thread is between the first and the second call of an emission while
\* the other thread is free to call subscribe or to drop a Subscription.
C7_Witness ==
    \E t, u \in env.threads :
        /\ t # u
        /\ Idle(u)
        /\ Len(subs) < MaxSubs
        /\ Len(stack[t]) = 1 /\ Top(t).run
        /\ CountSubscribers(Top(t).s) = 2
        /\ Len(Top(t).todo) = 1
        /\ LiveOn(Top(t).s) # {}

\* ----------------------------------------------------------------------- C8
\* C8: at most one emission of a stream is in progress, and every closure in
\* the registry of a stream has received a run of consecutive values of the
\* one sequence in which the stream's emissions got the lock, that starts with
\* the first emission after its registration and ends with the latest
\* emission or the one before it: no closure is a value ahead of another.
C8_EmissionsOneAfterAnother ==
    /\ \A r1, r2 \in Running :
         stack[r1[1]][r1[2]].s = stack[r2[1]][r2[2]].s => r1 = r2
    /\ \A s \in Streams : \A h \in Registered(s) :
         /\ Len(closure[h].log) \in {Due(s, h) - 1, Due(s, h)}
         /\ closure[h].log = SubSeq(emitted[s], closure[h].since + 1,
                                    closure[h].since + Len(closure[h].log))

\* Two threads have called emit on the stream: the emission of one is between
\* its two closures, the other waits for the lock.
C8_Witness ==
    \E t, u \in env.threads :
        /\ t # u
        /\ Len(stack[t]) = 1 /\ Top(t).run /\ Len(Top(t).todo) = 1
        /\ CountSubscribers(Top(t).s) = 2
        /\ Len(stack[u]) = 1 /\ ~Top(u).run /\ Top(u).s = Top(t).s

\* ----------------------------------------------------------------------- C9
\* C9: once a Subscription is destroyed its closure is not called again: no
\* step adds to what it has received, and no emission in progress has it left
\* to call.
C9_NoCallAfterDrop ==
    /\ [][\A h \in DOMAIN subs : ~subs[h].live =>
            closure'[h].log = closure[h].log]_vars
    /\ [](\A r \in Running : \A h \in Range(stack[r[1]][r[2]].todo) : subs[h].live)

\* A Subscription of the stream is destroyed, another is alive, and both
\* threads have called emit: one emission is calling, the other waits.
C9_Witness ==
    \E t, u \in env.threads : \E h \in DOMAIN subs :
        /\ t # u
        /\ ~subs[h].live
        /\ Len(stack[t]) = 1 /\ Top(t).run /\ Top(t).todo # <<>>
        /\ Top(t).s = subs[h].stream
        /\ Len(stack[u]) = 1 /\ ~Top(u).run /\ Top(u).s = subs[h].stream

\* ---------------------------------------------------------------------- C10
\* Thread t is in a callback of an emission of stream s that calls subscribe
\* or count_subscribers on s or drops a Subscription of s, or in an emit_rc
\* of s made from inside an emission of s that holds the lock.
Reenters(t) ==
    /\ ~Idle(t)
    /\ IF Top(t).run
       THEN /\ Top(t).todo # <<>>
            /\ closure[Head(Top(t).todo)].kind \in Reentrant
       ELSE holder[Top(t).s] = t

\* C10: a thread whose callback re-enters the stream that is emitting has no
\* step to take: its emit call does not return and it does not panic.  This
\* lasts: whatever the other threads do, the thread stays where it is, the
\* stream stays locked and is not poisoned.
C10_ReentryDeadlocks ==
    /\ [](\A t \in Threads : Reenters(t) => ~ENABLED Step(t))
    /\ [][\A t \in Threads : Reenters(t) =>
            /\ stack'[t] = stack[t]
            /\ ret'[t] = ret[t]
            /\ \A s \in Streams : holder[s] = t =>
                  holder'[s] = t /\ ~poisoned'[s]]_vars

\* A callback calls count_subscribers on the stream that is emitting while
\* another thread has called emit on it.
C10_Witness ==
    \E t, u \in env.threads :
        /\ t # u
        /\ Reenters(t)
        /\ Top(t).run
        /\ closure[Head(Top(t).todo)].kind = "count"
        /\ ~Idle(u)

\* ---------------------------------------------------------------------- C11
\* The types a program may ask the extension fields for.
Types == {"X", "Y"}

\* Thread t makes a call on stream s in this step: subscribe, pipe_into,
\* count_subscribers, an extension access, the destruction of a Subscription
\* of s or of its Sink, or the lock() of an emission.
CallOn(t, s) ==
    \/ \E k \in Kinds : Subscribe(t, s, k)
    \/ \E to \in Streams : PipeInto(t, s, to)
    \/ \E h \in DOMAIN subs : subs[h].stream = s /\ Drop(t, h)
    \/ Count(t, s)
    \/ DropSink(t, s)
    \/ \E x \in Types : ReadExtraFields(t, s, x)
    \/ \E x \in Types : MutateExtraFields(t, s, x)
    \/ ~Idle(t) /\ Top(t).s = s /\ AcquireEmit(t)

\* C11: a guard of a stream is given up either by the return of the emission
\* that holds it or by a panic, and then the stream is poisoned.  A poisoned
\* stream stays poisoned; its registry, id counter, aliveness flag, extension
\* fields and record of emissions never change again and none of its closures
\* is called; and every call made on it panics.
C11_PoisonedForGood ==
    [][/\ \A s \in Streams : \A t \in Threads :
            (holder[s] = t /\ holder'[s] # t) =>
                \/ Top(t).s = s /\ Top(t).run /\ Top(t).todo = <<>>
                      /\ stack'[t] = Pop(t) /\ ~poisoned'[s]
                \/ poisoned'[s] /\ stack'[t] = <<>> /\ ret'[t] = Panicked
       /\ \A s \in Streams : poisoned[s] =>
            /\ poisoned'[s]
            /\ holder'[s] = NoThread
            /\ on_emit'[s] = on_emit[s]
            /\ highest_id'[s] = highest_id[s]
            /\ is_alive'[s] = is_alive[s]
            /\ extra_fields'[s] = extra_fields[s]
            /\ emitted'[s] = emitted[s]
            /\ \A h \in Registered(s) : closure'[h] = closure[h]
       /\ \A s \in Streams : \A t \in Threads :
            (poisoned[s] /\ CallOn(t, s)) => ret'[t] = Panicked /\ stack'[t] = <<>>]_vars

\* A closure panicked during an emission.  Since then the Subscription and
\* the Sink of the stream were dropped, which panicked: the closure is still
\* in the registry and the stream still counts as alive.
C11_Witness ==
    \E s \in Streams : \E h \in DOMAIN subs :
        /\ poisoned[s]
        /\ emitted[s] # <<>>
        /\ subs[h].stream = s /\ ~subs[h].live
        /\ h \in Registered(s)
        /\ ~sink[s] /\ is_alive[s]
        /\ \A t \in env.threads : ret[t] = Panicked

\* ---------------------------------------------------------------------- C12
\* The Sink of stream s is destroyed in this step and the destruction returns.
SinkDestroyed(s) == sink[s] /\ ~sink'[s] /\ ~poisoned[s]

\* A Subscription of stream s is made in this step.
Subscribed(s) ==
    /\ Len(subs') = Len(subs) + 1
    /\ subs'[Len(subs')].stream = s

\* C12: the destruction of a Sink sets is_alive of its stream to false and
\* changes nothing else of any stream.  On a stream whose Sink is destroyed
\* (whose Mutex is not poisoned and whose id counter is below u16::MAX)
\* subscribe can still be called and does
\* register the closure under the id it returns, and an emission that reaches
\* the stream through the closure of a pipe link returns only when every
\* closure in the stream's registry has been called with its value.
C12_StreamOutlivesItsSink ==
    /\ [][\A s \in Streams : SinkDestroyed(s) =>
            /\ is_alive[s] /\ ~is_alive'[s]
            /\ \A o \in Streams \ {s} : is_alive'[o] = is_alive[o]
            /\ UNCHANGED <<highest_id, on_emit, subs, closure, emitted,
                           extra_fields, holder, poisoned, stack>>]_vars
    /\ [](\A s \in Streams : \A t \in env.threads :
            (~sink[s] /\ "rec" \in env.kinds /\ s \in env.streams /\ Idle(t)
                /\ Quiet(s) /\ Len(subs) < MaxSubs /\ highest_id[s] < U16Max) =>
                ENABLED (Subscribe(t, s, "rec") /\ Subscribed(s)))
    /\ [][\A s \in Streams : (~sink[s] /\ Subscribed(s)) =>
            LET h == Len(subs')
            IN /\ subs'[h].live
               /\ on_emit'[s] = MapInsert(on_emit[s], subs'[h].id, h)
               /\ closure'[h].kind # "gone"]_vars
    /\ [][\A t \in Threads :
            (Returned(t) /\ ~sink[Top(t).s] /\ Len(stack[t]) > 1) =>
                /\ Last(emitted[Top(t).s]) = Top(t).v
                /\ \A i \in DOMAIN on_emit[Top(t).s] :
                      CalledWith(Top(t).s, on_emit[Top(t).s][i], Top(t).v)]_vars

\* Sink 1 is destroyed and stream 2 is still piped into stream 1.  The second
\* value emitted on stream 2 has been forwarded to stream 1, where the
\* forwarded emission has called both closures of the registry and is about
\* to return; one of them was subscribed after the first emission.
C12_Witness ==
    \E t \in env.threads : \E h, g \in LiveOn(1) :
        /\ ~sink[1] /\ ~is_alive[1]
        /\ Cardinality(Links(2, 1)) = 1
        /\ Len(stack[t]) = 2 /\ Top(t).s = 1 /\ Top(t).run /\ Top(t).todo = <<>>
        /\ Top(t).v = 2
        /\ h # g
        /\ closure[h].log = <<1, 2>>
        /\ closure[g].log = <<2>>

\* ---------------------------------------------------------------------- C13
\* C13: a step that ends a Subscription is stream.unsubscribe(subscription),
\* on a handle of whichever stream, exactly when it is the destruction of the
\* Subscription, and it is that step: the entry of the Subscription's id leaves the registry of the
\* Subscription's own stream (on a poisoned stream the call panics and the
\* registry stays), and every other registry, every id counter and every
\* aliveness flag stay as they are.
C13_UnsubscribeIsDrop ==
    [][\A h \in DOMAIN subs : (subs[h].live /\ ~subs'[h].live) =>
        \A t \in env.threads :
            IF Drop(t, h)
            THEN /\ \A via \in env.streams : Unsubscribe(t, via, h)
                 /\ on_emit' = IF poisoned[subs[h].stream] THEN on_emit
                               ELSE [on_emit EXCEPT ![subs[h].stream] =
                                        UnsubscribeById(@, subs[h].id)]
                 /\ highest_id' = highest_id
                 /\ is_alive' = is_alive
            ELSE \A via \in env.streams : ~Unsubscribe(t, via, h)]_vars

\* Each of the two streams has a closure under id 0.  The Subscription of
\* stream 2 has been given up and its closure is gone; the closure of stream 1
\* is in place, and its Subscription can be handed to unsubscribe on the
\* handle of stream 2.
C13_Witness ==
    \E h, g \in DOMAIN subs : \E t \in env.threads :
        /\ subs[h].stream = 2 /\ ~subs[h].live /\ subs[h].id = 0
        /\ 0 \notin DOMAIN on_emit[2]
        /\ g \in LiveOn(1) /\ subs[g].id = 0
        /\ on_emit[1][0] = g
        /\ ret[t] = Ok
        /\ ENABLED Unsubscribe(t, 2, g)

\* ---------------------------------------------------------------------- C14
\* The values of the emissions of stream s that got the lock after k others.
EmittedSince(s, k) == SubSeq(emitted[s], k + 1, Len(emitted[s]))

\* C14: a closure subscribed when k emissions of its stream had completed
\* (none was in progress, subscribe having the lock) is never called with one
\* of their values and is called with every later one: while its Subscription
\* is not destroyed and no emission of the stream is in progress or has
\* failed, what it has received is exactly the values emitted after the k, in
\* their order; and at any time it is a prefix of those.
C14_NoReplayNoneMissed ==
    /\ [][\A s \in Streams : Subscribed(s) =>
            /\ Len(emitted[s]) = closure'[Len(subs')].since
            /\ closure'[Len(subs')].log = <<>>
            /\ \A t \in Threads : \A i \in DOMAIN stack[t] :
                  ~(stack[t][i].s = s /\ stack[t][i].run)]_vars
    /\ [](\A s \in Streams : \A h \in DOMAIN subs : subs[h].stream = s =>
            /\ \E n \in 0..Len(EmittedSince(s, closure[h].since)) :
                  closure[h].log = SubSeq(EmittedSince(s, closure[h].since), 1, n)
            /\ (subs[h].live /\ Quiet(s)) =>
                  closure[h].log = EmittedSince(s, closure[h].since))

\* A closure subscribed before the first emission has received both values, a
\* closure subscribed between the two has received the second only.
C14_Witness ==
    \E s \in Streams : \E h, g \in LiveOn(s) :
        /\ Quiet(s)
        /\ emitted[s] = <<1, 2>>
        /\ closure[h].since = 0 /\ closure[h].log = <<1, 2>>
        /\ closure[g].since = 1 /\ closure[g].log = <<2>>

\* ---------------------------------------------------------------------- C15
\* The payload of stream s is of type x.
HasFields(s, x) == extra_fields[s] # NoFields /\ extra_fields[s].type = x

\* C15: read_extra_fields and mutate_extra_fields, on a stream whose Mutex is
\* not poisoned, asked for type x: when the stream has a payload of type x
\* the function is run (read returns what the function returns, here the
\* payload's value; mutate leaves the payload as the function wrote it) and
\* the call returns; when the stream has no payload or one of another type,
\* the call panics and the function has not run: nothing is returned and the
\* payload is as it was.  A stream made by Sink::new never has a payload.
C15_ExtensionAccessNeedsItsType ==
    /\ [][\A t \in Threads : \A s \in Streams : \A x \in Types : ~poisoned[s] =>
            /\ ReadExtraFields(t, s, x) =>
                  IF HasFields(s, x)
                  THEN /\ ret'[t] = extra_fields[s].value
                       /\ ~poisoned'[s]
                  ELSE /\ ret'[t] = Panicked
                       /\ extra_fields' = extra_fields
            /\ MutateExtraFields(t, s, x) =>
                  IF HasFields(s, x)
                  THEN /\ extra_fields'[s] = Mutated(extra_fields[s])
                       /\ ret'[t] = Ok
                       /\ ~poisoned'[s]
                  ELSE /\ ret'[t] = Panicked
                       /\ extra_fields' = extra_fields]_vars
    /\ [](\A s \in Streams : env.payload = "none" => extra_fields[s] = NoFields)
    /\ [](\A s \in Streams : \A t \in env.threads : \A x \in env.asks :
            (Idle(t) /\ Quiet(s) /\ s \in env.streams) =>
                /\ ENABLED ReadExtraFields(t, s, x)
                /\ ENABLED MutateExtraFields(t, s, x))

\* The payload of type X has been written by a mutate_extra_fields asked for
\* X, and a later access asked for Y has panicked, leaving it as written.
C15_Witness ==
    \E s \in Streams : \E t \in env.threads :
        /\ HasFields(s, "X")
        /\ "Y" \in env.asks
        /\ extra_fields[s].value = "b"
        /\ ret[t] = Panicked
        /\ poisoned[s]

\* A stream made by Sink::new has been asked for its extension fields, which
\* panicked.
C15_WitnessNoPayload ==
    \E s \in Streams : \E t \in env.threads :
        /\ extra_fields[s] = NoFields
        /\ env.asks # {}
        /\ emitted[s] = <<>> /\ subs = <<>>
        /\ ret[t] = Panicked

\* ---------------------------------------------------------------------- C16
\* C16: the id counter of a stream never decreases, every subscribe call
\* that returns advances it, no two Subscriptions of a stream were given the
\* same id, and so no two Subscriptions of a stream that are not destroyed
\* hold the same id -- whatever the number of subscribe calls.
C16_IdsAreNeverReused ==
    /\ [][\A s \in Streams :
            /\ highest_id'[s] >= highest_id[s]
            /\ Subscribed(s) => highest_id'[s] > highest_id[s]]_vars
    /\ [](\A h, g \in DOMAIN subs :
            (h # g /\ subs[h].stream = subs[g].stream) => subs[h].id # subs[g].id)

\* Two Subscriptions of one stream, neither destroyed, hold id 0, and the
\* registry's entry of that id is the closure of the later one: the closure
\* of the earlier one is gone.
C16_Witness ==
    \E h, g \in DOMAIN subs :
        /\ h < g
        /\ subs[h].live /\ subs[g].live
        /\ subs[h].stream = subs[g].stream
        /\ subs[h].id = 0 /\ subs[g].id = 0
        /\ on_emit[subs[h].stream][0] = g
        /\ closure[h].kind = "gone"
        /\ highest_id[subs[h].stream] = 1

\* ---------------------------------------------------------------------- C17
\* C17: is_alive of a stream is true when the stream is made; the only step
\* that changes it is the destruction of the stream's Sink, which makes it
\* false, and it stays false: a stream is alive exactly as long as its Sink
\* has not been destroyed by a destruction that returned.  No subscribe,
\* pipe_into, emission, count_subscribers, destruction of a Subscription or
\* extension access changes it.
C17_AliveUntilSinkIsDropped ==
    /\ [][\A s \in Streams :
            /\ is_alive'[s] # is_alive[s] =>
                  /\ is_alive[s] /\ ~is_alive'[s]
                  /\ sink[s] /\ ~sink'[s]
                  /\ \E t \in Threads : DropSink(t, s)
                  /\ \A t \in Threads :
                        ~(\/ \E k \in Kinds : Subscribe(t, s, k)
                          \/ \E to \in Streams : PipeInto(t, s, to)
                          \/ \E h \in DOMAIN subs : Drop(t, h)
                          \/ Emit(t, s) \/ AcquireEmit(t) \/ Invoke(t) \/ Return(t)
                          \/ Count(t, s)
                          \/ \E x \in Types : ReadExtraFields(t, s, x)
                          \/ \E x \in Types : MutateExtraFields(t, s, x))
            /\ ~is_alive[s] => ~is_alive'[s]
            /\ SinkDestroyed(s) => ~is_alive'[s]]_vars
    /\ [](\A s \in Streams : sink[s] => is_alive[s])

\* The Sink of a stream was destroyed after the first of two emissions that
\* reached the stream through a pipe link; since then a closure has been
\* subscribed on the stream and called with the second value and the link
\* has been destroyed, and the stream is still not alive.
C17_Witness ==
    \E s \in Streams : \E h, g \in DOMAIN subs :
        /\ ~is_alive[s] /\ ~sink[s]
        /\ Quiet(s)
        /\ Len(emitted[s]) = 2
        /\ h \in LiveOn(s)
        /\ closure[h].since = 1 /\ closure[h].log = <<2>>
        /\ subs[g].stream # s /\ ~subs[g].live

\* ---------------------------------------------------------------------- C18
\* The streams that a value emitted on stream s reaches through the pipe
\* links of program e, in one or more hops.
RECURSIVE Reach(_, _, _)
Reach(e, from, n) ==
    IF n = 0 THEN {}
    ELSE LET next == {l[2] : l \in {k \in e.links : k[1] \in from}}
         IN next \cup Reach(e, next, n - 1)

\* No stream of program e is piped, directly or through others, into itself.
Acyclic(e) == \A s \in Streams : s \notin Reach(e, {s}, Cardinality(Streams))

\* Every closure of program e only records or forwards.
Benign(e) == e.kinds \subseteq {"rec", "pipe"}

\* A program of the kind C18 is about: it emits, subscribes, pipes and
\* destroys, and asks for no extension fields.
Plain(e) == Acyclic(e) /\ Benign(e) /\ e.asks = {}

\* C18: in a plain program (its pipe links form no cycle, its closures only
\* record or forward), with any of its threads emitting, subscribing, piping
\* and destroying Subscriptions at any time: every emit call that has started
\* returns, so that in the end (the program makes MaxEmits emit calls at
\* most) every thread is out of its calls and stays so; no call panics and no
\* stream is poisoned; a lock is held only by a thread inside an emit call,
\* so every lock that is held is given up; and whenever the lock of a stream
\* is free, subscribe and the destruction of a Subscription can be called
\* and return in the same step.
C18_NoDeadlock ==
    /\ Plain(env) => <>[](\A t \in Threads : Idle(t))
    /\ [](Plain(env) =>
            /\ \A t \in Threads : ret[t] # Panicked
            /\ \A s \in Streams : ~poisoned[s]
            /\ \A s \in Streams : \A t \in Threads : holder[s] = t => ~Idle(t))
    /\ [](\A t \in env.threads : \A s \in env.streams :
            (Plain(env) /\ Idle(t) /\ holder[s] = NoThread) =>
                /\ Len(subs) < MaxSubs =>
                      ENABLED (Subscribe(t, s, "rec") /\ ret'[t] = Ok /\ Idle(t)')
                /\ \A h \in LiveOn(s) :
                      ENABLED (Drop(t, h) /\ ret'[t] = Ok /\ Idle(t)'))

\* Two threads are emitting: one holds the lock of stream 2 and its pipe
\* closure has called emit_rc on stream 1, where it waits for the lock that
\* the other thread's emission on stream 1 holds.
C18_Witness ==
    \E t, u \in env.threads :
        /\ Plain(env)
        /\ t # u
        /\ Len(stack[t]) = 2
        /\ stack[t][1].s = 2 /\ stack[t][1].run /\ holder[2] = t
        /\ Top(t).s = 1 /\ ~Top(t).run
        /\ Len(stack[u]) = 1 /\ Top(u).s = 1 /\ Top(u).run /\ holder[1] = u
        /\ Top(u).todo # <<>>

\* ---------------------------------------------------------------------- C19
\* The streams that a value emitted on one of the streams `from` reaches, in
\* one or more hops, through the pipe links that are alive.
RECURSIVE LiveReach(_, _)
LiveReach(from, n) ==
    IF n = 0 THEN {}
    ELSE LET next == {a \in Streams : \E b \in from : Links(b, a) # {}}
         IN next \cup LiveReach(next, n - 1)

\* Stream s is on a cycle of live pipe links.
OnCycle(s) == s \in LiveReach({s}, Cardinality(Streams))

\* The pipe link from s into `to`, made in this step, closes a cycle.
ClosesCycle(s, to) == to = s \/ s \in LiveReach({to}, Cardinality(Streams))

\* C19: pipe_into is accepted whether or not the link closes a cycle: the
\* call returns and the link is registered (on a stream that is not poisoned
\* and whose id counter is below u16::MAX, as for any subscribe).  An emission on a stream that is
\* on a cycle of live links, once it has the lock, does not end: the thread
\* neither returns from the emit call nor panics, no guard it holds is given
\* up and no stream is poisoned; the value comes back to a stream the thread
\* has locked, and there the thread has no step to take.
C19_CycleIsAcceptedAndHangs ==
    /\ [](\A t \in env.threads : \A l \in env.links :
            (Idle(t) /\ Quiet(l[1]) /\ sink[l[2]] /\ Len(subs) < MaxSubs
                /\ highest_id[l[1]] < U16Max) =>
                ENABLED (PipeInto(t, l[1], l[2]) /\ ret'[t] = Ok /\ Subscribed(l[1])))
    /\ [][\A t \in Threads : \A s, to \in Streams :
            (PipeInto(t, s, to) /\ ~poisoned[s] /\ highest_id[s] < U16Max
                /\ ClosesCycle(s, to)) =>
                /\ ret'[t] = Ok
                /\ OnCycle(s)' /\ OnCycle(to)']_vars
    /\ [][\A t \in Threads :
            (~Idle(t) /\ stack[t][1].run /\ OnCycle(stack[t][1].s)) =>
                /\ ~Idle(t)'
                /\ stack'[t][1].run
                /\ Len(stack'[t]) >= Len(stack[t])
                /\ ret'[t] = ret[t]
                /\ \A s \in Streams : holder[s] = t => holder'[s] = t
                /\ poisoned' = poisoned]_vars
    /\ [](\A t \in Threads : (~Idle(t) /\ ~Top(t).run /\ holder[Top(t).s] = t) =>
            ~ENABLED Step(t))

\* Stream 1 is piped into sink 2 and stream 2 into sink 1.  A value emitted
\* on stream 1 was forwarded to stream 2 and from there back to stream 1,
\* whose lock the thread holds: it has no step to take.
C19_Witness ==
    \E t \in env.threads :
        /\ OnCycle(1) /\ OnCycle(2) /\ Links(1, 2) # {} /\ Links(2, 1) # {}
        /\ Len(stack[t]) = 3
        /\ stack[t][1].s = 1 /\ stack[t][1].run
        /\ stack[t][2].s = 2 /\ stack[t][2].run
        /\ stack[t][3].s = 1 /\ ~stack[t][3].run
        /\ holder[1] = t /\ holder[2] = t
        /\ ~ENABLED Step(t)

\* A stream is piped into its own sink, and the emission on it waits for the
\* lock it holds.
C19_WitnessSelfPipe ==
    \E t \in env.threads :
        /\ Links(1, 1) # {}
        /\ Len(stack[t]) = 2
        /\ stack[t][1].s = 1 /\ stack[t][1].run
        /\ stack[t][2].s = 1 /\ ~stack[t][2].run
        /\ ~ENABLED Step(t)

\* ---------------------------------------------------------------------- C20
\* The streams on thread t's call chain: those with an emission in progress
\* on its stack that has the lock.
OnChain(t) == {stack[t][i].s : i \in {j \in DOMAIN stack[t] : stack[t][j].run}}

\* The closure that thread t's innermost emission calls in this step panics.
Faults(t) ==
    /\ ~Idle(t)
    /\ Top(t).run
    /\ Top(t).todo # <<>>
    /\ closure[Head(Top(t).todo)].kind = "fail"
    /\ Invoke(t)

\* C20: when a closure called by an emission panics, the call unwinds
\* through every emission in progress on the thread: the stream of the
\* closure and every stream upstream of it on the call chain are poisoned,
\* all at once, their guards are released and the thread's emit call ends in
\* the panic; the streams off the call chain are poisoned no more than they
\* were.  Every call made on a poisoned stream panics; on a stream that is
\* not poisoned (and not locked) subscribe and emit can be called and
\* subscribe returns.
C20_FaultPoisonsTheCallChain ==
    /\ [][\A t \in Threads : Faults(t) =>
            /\ \A s \in Streams : poisoned'[s] <=> (poisoned[s] \/ s \in OnChain(t))
            /\ \A s \in Streams : holder'[s] # t
            /\ \A s \in OnChain(t) : holder[s] = t
            /\ Idle(t)' /\ ret'[t] = Panicked]_vars
    /\ [][\A t \in Threads : \A s \in Streams :
            (poisoned[s] /\ CallOn(t, s)) =>
                /\ ret'[t] = Panicked
                /\ on_emit'[s] = on_emit[s] /\ emitted'[s] = emitted[s]]_vars
    /\ [](\A t \in env.threads : \A s \in env.streams :
            (Idle(t) /\ Quiet(s) /\ highest_id[s] < U16Max) =>
                /\ \A k \in env.kinds \ {"pipe"} : Len(subs) < MaxSubs =>
                      ENABLED (Subscribe(t, s, k) /\ ret'[t] = Ok /\ Subscribed(s))
                /\ (sink[s] /\ emits < MaxEmits) =>
                      ENABLED (Emit(t, s) /\ Top(t)'.s = s)
                /\ ENABLED (Count(t, s) /\ ret'[t] = Ok))

\* A value emitted on stream 2 was forwarded into stream 1, where a closure
\* panicked: both streams are poisoned and the emit call ended in the panic.
C20_Witness ==
    \E t \in env.threads : \E h, g \in DOMAIN subs :
        /\ poisoned[1] /\ poisoned[2]
        /\ emitted[1] = <<1>> /\ emitted[2] = <<1>>
        /\ g \in Links(2, 1) /\ closure[g].log = <<1>>
        /\ h \in LiveOn(1) /\ closure[h].kind = "fail" /\ closure[h].log = <<1>>
        /\ ret[t] = Panicked /\ Idle(t)
        /\ holder[1] = NoThread /\ holder[2] = NoThread

\* A closure of stream 1 panicked in an emission made on sink 1: stream 1 is
\* poisoned and stream 2, which is piped into it, is not.
C20_WitnessOffChain ==
    \E t \in env.threads :
        /\ poisoned[1] /\ ~poisoned[2]
        /\ Links(2, 1) # {}
        /\ emitted[1] = <<1>> /\ emitted[2] = <<>>
        /\ ret[t] = Panicked

====
